---- MODULE Spec2Model ----
(***************************************************************************)
(* A model of repoStruct2Markdown.py: generate_repo_structure_to_markdown  *)
(* walks a directory tree, emits a markdown tree listing and one content   *)
(* section per listed file.                                                *)
(*                                                                         *)
(* Text is a sequence of one-character strings.  A path below the root is  *)
(* the sequence of its components' names; the root is the empty path.      *)
(* An optional value (Python None / value) is <<>> / <<value>>.            *)
(***************************************************************************)
EXTENDS Integers, Sequences, FiniteSets, TLC

VARIABLES
    fs,                  \* the directory tree on disk: path -> entry
    ignore_hidden,       \* parameter
    ignore_patterns,     \* parameter, optional list of patterns
    include_file_contents, \* parameter
    output_file,         \* parameter, optional file name
    pc,                  \* "start", "tree", "emit", "done", "assertion_failed"
    stack,               \* active _build_tree calls, innermost first
    result,              \* the list of output lines
    file_contents,       \* the insertion-ordered dict of recorded files
    cursor,              \* position of the content loop in file_contents
    content,             \* last text returned by read_text
    numbered_lines,      \* last list of numbered lines
    shown,               \* for each tree line appended by _build_tree: the item it was made for
    returned,            \* optional return value of the call
    written,             \* optional content of output_file on disk
    console,             \* what was printed
    previous             \* optional return value of the previous call

vars == <<fs, ignore_hidden, ignore_patterns, include_file_contents, output_file,
          pc, stack, result, file_contents, cursor, content, numbered_lines,
          shown, returned, written, console, previous>>

(***************************************************************************)
(* Bounds                                                                  *)
(***************************************************************************)
MaxEntries == 3
MaxFaults == 1
MaxTextLen == 4

None == <<>>
Some(x) == <<x>>

(***************************************************************************)
(* Characters                                                              *)
(***************************************************************************)
UpperLetters == <<"A","B","C","D","E","F","G","H","I","J","K","L","M",
                  "N","O","P","Q","R","S","T","U","V","W","X","Y","Z">>
LowerLetters == <<"a","b","c","d","e","f","g","h","i","j","k","l","m",
                  "n","o","p","q","r","s","t","u","v","w","x","y","z">>
DigitChars == <<"0","1","2","3","4","5","6","7","8","9">>

Range(s) == {s[i] : i \in DOMAIN s}
IndexOf(s, c) == CHOOSE i \in DOMAIN s : s[i] = c

UpperSet == Range(UpperLetters)
LowerSet == Range(LowerLetters)
DigitSet == Range(DigitChars)
OtherChars == {"\n", " ", "*", "-", ".", "/", ":", "?", "_"}

\* The code point of a character (ASCII).
OrdOf ==
    [c \in UpperSet \cup LowerSet \cup DigitSet \cup OtherChars |->
        IF c \in UpperSet THEN 64 + IndexOf(UpperLetters, c)
        ELSE IF c \in LowerSet THEN 96 + IndexOf(LowerLetters, c)
        ELSE IF c \in DigitSet THEN 47 + IndexOf(DigitChars, c)
        ELSE CASE c = "\n" -> 10
               [] c = " " -> 32
               [] c = "*" -> 42
               [] c = "-" -> 45
               [] c = "." -> 46
               [] c = "/" -> 47
               [] c = ":" -> 58
               [] c = "?" -> 63
               [] c = "_" -> 95]

Ord(c) == OrdOf[c]

\* str.lower() on one character.
LowerOf == [c \in UpperSet |-> LowerLetters[IndexOf(UpperLetters, c)]]

LowerChar(c) == IF c \in UpperSet THEN LowerOf[c] ELSE c

\* str.lower()
Lower(s) == [i \in DOMAIN s |-> LowerChar(s[i])]

\* Python's < on strings: lexicographic by code point.
RECURSIVE StrLess(_, _)
StrLess(a, b) ==
    IF b = <<>> THEN FALSE
    ELSE IF a = <<>> THEN TRUE
    ELSE IF a[1] = b[1] THEN StrLess(Tail(a), Tail(b))
    ELSE Ord(a[1]) < Ord(b[1])

StrLeq(a, b) == a = b \/ StrLess(a, b)

\* str.isspace() on one character
IsSpace(c) == c \in {" ", "\n"}

\* [a-zA-Z0-9]
AlnumSet == UpperSet \cup LowerSet \cup DigitSet

IsAlnum(c) == c \in AlnumSet

\* sep.join(parts)
RECURSIVE Join(_, _)
Join(sep, parts) ==
    IF parts = <<>> THEN <<>>
    ELSE IF Len(parts) = 1 THEN parts[1]
    ELSE parts[1] \o sep \o Join(sep, Tail(parts))

\* str(i) for a natural number
RECURSIVE Str(_)
Str(i) == IF i < 10 THEN <<DigitChars[i + 1]>> ELSE Str(i \div 10) \o <<DigitChars[(i % 10) + 1]>>

(***************************************************************************)
(* create_anchor_id                                                        *)
(***************************************************************************)
\* re.sub(r'[^a-zA-Z0-9]', '-', s)
ReplaceNonAlnum(s) == [i \in DOMAIN s |-> IF IsAlnum(s[i]) THEN s[i] ELSE "-"]

\* re.sub(r'-+', '-', s)
RECURSIVE CollapseDashes(_)
CollapseDashes(s) ==
    IF Len(s) < 2 THEN s
    ELSE IF s[1] = "-" /\ s[2] = "-" THEN CollapseDashes(Tail(s))
    ELSE <<s[1]>> \o CollapseDashes(Tail(s))

\* s.strip('-')
RECURSIVE StripDashes(_)
StripDashes(s) ==
    IF s = <<>> THEN s
    ELSE IF s[1] = "-" THEN StripDashes(Tail(s))
    ELSE IF s[Len(s)] = "-" THEN StripDashes(SubSeq(s, 1, Len(s) - 1))
    ELSE s

create_anchor_id(filename) == StripDashes(CollapseDashes(ReplaceNonAlnum(Lower(filename))))

(***************************************************************************)
(* determine_file_language                                                 *)
(***************************************************************************)
extension_map ==
    { << <<".","c","p","p">>, <<"c","p","p">> >>,
      << <<".","c">>, <<"c">> >>,
      << <<".","h">>, <<"c","p","p">> >>,
      << <<".","h","p","p">>, <<"c","p","p">> >>,
      << <<".","p","y">>, <<"p","y","t","h","o","n">> >>,
      << <<".","j","s">>, <<"j","a","v","a","s","c","r","i","p","t">> >>,
      << <<".","h","t","m","l">>, <<"h","t","m","l">> >>,
      << <<".","c","s","s">>, <<"c","s","s">> >>,
      << <<".","j","a","v","a">>, <<"j","a","v","a">> >>,
      << <<".","m","d">>, <<"m","a","r","k","d","o","w","n">> >>,
      << <<".","j","s","o","n">>, <<"j","s","o","n">> >>,
      << <<".","x","m","l">>, <<"x","m","l">> >>,
      << <<".","s","q","l">>, <<"s","q","l">> >>,
      << <<".","s","h">>, <<"b","a","s","h">> >>,
      << <<".","b","a","t">>, <<"b","a","t","c","h">> >>,
      << <<".","p","s","1">>, <<"p","o","w","e","r","s","h","e","l","l">> >>,
      << <<".","c","s">>, <<"c","s","h","a","r","p">> >>,
      << <<".","r","b">>, <<"r","u","b","y">> >>,
      << <<".","p","h","p">>, <<"p","h","p">> >>,
      << <<".","p","l">>, <<"p","e","r","l">> >>,
      << <<".","g","o">>, <<"g","o">> >>,
      << <<".","r","s">>, <<"r","u","s","t">> >>,
      << <<".","i","d","l">>, <<"i","d","l">> >>,
      << <<".","y","a","m","l">>, <<"y","a","m","l">> >> }

\* name.rfind('.'): the highest index holding a dot, 0 when there is none (1-based)
RFindDot(name) ==
    IF \E i \in DOMAIN name : name[i] = "."
    THEN CHOOSE i \in DOMAIN name : name[i] = "." /\ \A j \in DOMAIN name : name[j] = "." => j <= i
    ELSE 0

\* pathlib's PurePath.suffix: the last dot and what follows it, unless that dot
\* is the first or the last character of the name.
Suffix(name) ==
    LET i == RFindDot(name)
    IN IF 1 < i /\ i < Len(name) THEN SubSeq(name, i, Len(name)) ELSE <<>>

\* extension_map.get(suffix, default)
MapGet(suffix, default) ==
    IF \E e \in extension_map : e[1] = suffix
    THEN Some((CHOOSE e \in extension_map : e[1] = suffix)[2])
    ELSE default

\* a faulty variant: an unknown extension falls back to a default language
language_with_fallback(name) == MapGet(Lower(Suffix(name)), Some(<<"t","e","x","t">>))

determine_file_language(name) == MapGet(Lower(Suffix(name)), None)

(***************************************************************************)
(* The directory tree on disk                                              *)
(***************************************************************************)
DirNames == { <<"a">>, <<"B">>, <<".","g">> }
FileNames == { <<"a",".","c">>, <<"A",".","C">>, <<"b",".","x">>, <<".","a",".","c">> }
Names == DirNames \cup FileNames
RootName == <<"r">>
Root == <<>>

TextChars == {"x", " ", "\n"}
BasicText == <<"x", "\n", "\n", "x", " ", "\n">>

RECURSIVE TextsUpTo(_)
TextsUpTo(n) ==
    IF n = 0 THEN {<<>>}
    ELSE LET shorter == TextsUpTo(n - 1)
         IN shorter \cup {Append(t, c) : t \in {u \in shorter : Len(u) = n - 1}, c \in TextChars}

Parent(p) == SubSeq(p, 1, Len(p) - 1)
Name(p) == p[Len(p)]

\* Sets of the root and at most n paths below it, each inside a directory of
\* the set.
RECURSIVE Shapes(_)
Shapes(n) ==
    IF n = 0 THEN {{Root}}
    ELSE LET smaller == Shapes(n - 1)
         IN smaller \cup
            UNION { { S \cup {Append(d, m)} :
                        d \in {q \in S : q = Root \/ Name(q) \in DirNames},
                        m \in Names }
                    : S \in smaller }

DirEntry(denied) == [is_dir |-> TRUE, denied |-> denied, readable |-> FALSE, text |-> <<>>]
FileEntry(readable, text) == [is_dir |-> FALSE, denied |-> FALSE, readable |-> readable, text |-> text]

\* An entry of the given name and text with nothing wrong with it, and one
\* that cannot be listed (a directory) or read (a file).
Healthy(p, text) == IF Name(p) \in DirNames THEN DirEntry(FALSE) ELSE FileEntry(TRUE, text)
Faulty(p) == IF Name(p) \in DirNames THEN DirEntry(TRUE) ELSE FileEntry(FALSE, <<>>)

\* The trees on the paths S with at most n faulty entries.
RECURSIVE Populate(_, _)
Populate(S, n) ==
    IF S = {} THEN {<<>>}
    ELSE LET p == CHOOSE q \in S : TRUE
         IN {(p :> Healthy(p, BasicText)) @@ f : f \in Populate(S \ {p}, n)}
            \cup (IF n = 0 THEN {}
                  ELSE {(p :> Faulty(p)) @@ f : f \in Populate(S \ {p}, n - 1)})

\* Trees of up to MaxEntries entries below a root that can be listed, of
\* which up to MaxFaults are faulty, and whose files all hold BasicText.
StructuredTrees ==
    { (Root :> DirEntry(FALSE)) @@ f :
        f \in UNION {Populate(S \ {Root}, MaxFaults) : S \in Shapes(MaxEntries)} }

\* The tree whose root cannot be listed: what is below it is never seen.
DeniedTrees == { (Root :> DirEntry(TRUE)) }

\* Trees of one file holding any text of up to MaxTextLen characters.
TextTrees ==
    { (Root :> DirEntry(FALSE)) @@ (<<n>> :> FileEntry(TRUE, t)) :
        n \in {<<"a",".","c">>}, t \in TextsUpTo(MaxTextLen) }

Trees == StructuredTrees \cup DeniedTrees \cup TextTrees

PatternLists == { None, Some(<< <<"B">>, <<"*",".","c">> >>) }
OutputFiles == { None, Some(<<"o",".","m","d">>) }

Children(dir) == {p \in DOMAIN fs : p # Root /\ Parent(p) = dir}

\* The orders in which iterdir() can yield the members of S.
RECURSIVE Orderings(_)
Orderings(S) ==
    IF S = {} THEN {<<>>}
    ELSE UNION { {<<x>> \o rest : rest \in Orderings(S \ {x})} : x \in S }

(***************************************************************************)
(* _should_ignore                                                          *)
(***************************************************************************)
\* hidden_pattern.match(name), the pattern being ^\..*
hidden_match(name) == name # <<>> /\ name[1] = "."

\* fnmatch of one path component: * matches any run, ? any one character
RECURSIVE fnmatch(_, _)
fnmatch(name, pat) ==
    IF pat = <<>> THEN name = <<>>
    ELSE IF pat[1] = "*"
         THEN fnmatch(name, Tail(pat)) \/ (name # <<>> /\ fnmatch(Tail(name), pat))
    ELSE IF pat[1] = "?"
         THEN name # <<>> /\ fnmatch(Tail(name), Tail(pat))
    ELSE name # <<>> /\ name[1] = pat[1] /\ fnmatch(Tail(name), Tail(pat))

\* the loop over ignore_patterns
pattern_ignores(item) ==
    /\ ignore_patterns # None
    /\ \E k \in DOMAIN ignore_patterns[1] :
          LET pattern == ignore_patterns[1][k]
          IN \/ pattern = Name(item)
             \/ "*" \in Range(pattern) /\ fnmatch(Name(item), pattern)

\* a faulty variant: the hidden check is left out
should_ignore_patterns_only(item) == pattern_ignores(item)

should_ignore(item) ==
    \/ ignore_hidden /\ hidden_match(Name(item))
    \/ pattern_ignores(item)

(***************************************************************************)
(* sorted(..., key=lambda x: x.name.lower())                               *)
(***************************************************************************)
\* a faulty variant: the key is the name as it is
sort_key_case_sensitive(item) == Name(item)

sort_key(item) == Lower(Name(item))

\* x goes behind every element whose key is not greater (the sort is stable)
RECURSIVE InsertSorted(_, _)
InsertSorted(s, x) ==
    IF s = <<>> THEN <<x>>
    ELSE IF StrLess(sort_key(x), sort_key(s[Len(s)]))
         THEN Append(InsertSorted(SubSeq(s, 1, Len(s) - 1), x), s[Len(s)])
    ELSE Append(s, x)

RECURSIVE sorted(_)
sorted(items) ==
    IF items = <<>> THEN <<>>
    ELSE InsertSorted(sorted(SubSeq(items, 1, Len(items) - 1)), items[Len(items)])

(***************************************************************************)
(* Output lines.  A fixed phrase of the source is one element of the text. *)
(***************************************************************************)
FOLDER_SYMBOL == "<folder>"
FILE_SYMBOL == "<file>"
indent == <<" ", " ">>

Line(kind, lead, text, ref) == [kind |-> kind, lead |-> lead, text |-> text, ref |-> ref]

intro_line == Line("intro", <<>>, <<>>, <<>>)
title_line == Line("title", <<>>, <<>>, <<>>)
legend_line == Line("legend", <<>>, <<>>, <<>>)
folder_line(lead, name) == Line("folder", lead, name, <<>>)
file_line(lead, name, anchor_id) == Line("file", lead, name, anchor_id)
denied_line(lead) == Line("denied", lead, <<>>, <<>>)
separator_line == Line("separator", <<>>, <<>>, <<>>)
contents_title_line == Line("contents_title", <<>>, <<>>, <<>>)
heading_line(anchor_id) == Line("heading", <<>>, anchor_id, <<>>)
path_line(rel_path) == Line("path", <<>>, rel_path, <<>>)
description_line(rel_path) == Line("description", <<>>, rel_path, <<>>)
fence_line(language) == Line("fence", <<>>, language, <<>>)
code_line(text) == Line("code", <<>>, text, <<>>)
fence_end_line == Line("fence_end", <<>>, <<>>, <<>>)
rule_line == Line("rule", <<>>, <<>>, <<>>)
error_line == Line("error", <<>>, <<>>, <<>>)

\* The text of a line: the f-string that builds it.
Render(l) ==
    CASE l.kind = "intro" -> <<"This is a source code repo with markdown formatting.", "\n">>
      [] l.kind = "title" -> <<"# Repository Structure">>
      [] l.kind = "legend" ->
            <<"We use ", FOLDER_SYMBOL, " to represent folder, and ", FILE_SYMBOL, " as file.", "\n">>
      [] l.kind = "folder" -> l.lead \o <<"-", " ", FOLDER_SYMBOL, " ">> \o l.text
      [] l.kind = "file" ->
            l.lead \o <<"-", " ", FILE_SYMBOL, " ", "[">> \o l.text \o <<"]", "(", "#">> \o l.ref \o <<")">>
      [] l.kind = "denied" -> l.lead \o <<"-", " ", "<warning>", " ", "[Permission denied]">>
      [] l.kind = "separator" -> <<"\n", "-", "-", "-", "\n">>
      [] l.kind = "contents_title" -> <<"# File Contents", "\n">>
      [] l.kind = "heading" -> <<"#", "#", " ">> \o l.text
      [] l.kind = "path" -> <<"file: ">> \o l.text
      [] l.kind = "description" -> <<"Here is contents of ">> \o l.text \o <<" with line numbers:">>
      [] l.kind = "fence" -> <<"<fence>">> \o l.text
      [] l.kind = "code" -> l.text
      [] l.kind = "fence_end" -> <<"<fence>">>
      [] l.kind = "rule" -> <<"-", "-", "-", "\n">>
      [] l.kind = "error" -> <<"*Error reading file: ", "<exception>", "*", "\n">>

\* "\n".join(result)
markdown_of(lines) == Join(<<"\n">>, [i \in DOMAIN lines |-> Render(lines[i])])

\* lines 49-56: the lines the result starts with
preamble == <<intro_line, title_line, legend_line, folder_line(<<>>, RootName)>>

(***************************************************************************)
(* Content numbering                                                       *)
(***************************************************************************)
\* a faulty variant: the text is not stripped
rstrip_nothing(s) == s

\* str.rstrip(): the text up to its last character that is not white space
rstrip(s) ==
    LET keep == {i \in DOMAIN s : ~IsSpace(s[i])}
    IN IF keep = {} THEN <<>>
       ELSE SubSeq(s, 1, CHOOSE i \in keep : \A j \in keep : j <= i)

\* s.split('\n')
RECURSIVE split_lines(_)
split_lines(s) ==
    IF "\n" \notin Range(s) THEN <<s>>
    ELSE LET i == CHOOSE k \in DOMAIN s : s[k] = "\n" /\ \A j \in 1..(k - 1) : s[j] # "\n"
         IN <<SubSeq(s, 1, i - 1)>> \o split_lines(SubSeq(s, i + 1, Len(s)))

\* the loop over enumerate(content_lines, 1)
number_lines(content_lines) ==
    [i \in DOMAIN content_lines |-> Str(i) \o <<":", " ">> \o content_lines[i]]

(***************************************************************************)
(* file_contents: a dict keeps the position of a key it already holds      *)
(***************************************************************************)
\* a faulty variant: the key is the file name alone
file_key_name_only(rel_path, name) == name

file_key(rel_path, name) == rel_path \o <<"/", "/">> \o name

dict_set(d, key, value) ==
    IF \E i \in DOMAIN d : d[i].key = key
    THEN [i \in DOMAIN d |-> IF d[i].key = key THEN [key |-> key, value |-> value] ELSE d[i]]
    ELSE Append(d, [key |-> key, value |-> value])

\* str(rel_path)
path_str(p) == Join(<<"/">>, p)

(***************************************************************************)
(* The call generate_repo_structure_to_markdown(path, ...)                 *)
(*                                                                         *)
(* stack holds the calls of _build_tree that still have a child to         *)
(* process, the innermost first; a call whose two loops are over has       *)
(* returned.  dirs and files are what the loops of a call have yet to      *)
(* process.                                                                *)
(***************************************************************************)
is_dir(item) == fs[item].is_dir
is_file(item) == ~fs[item].is_dir

\* lines 96-97: the call _build_tree(directory, prefix) after it listed its
\* directory as items
Frame(directory, prefix, items) ==
    [directory |-> directory, prefix |-> prefix,
     dirs |-> sorted(SelectSeq(items, is_dir)),
     files |-> sorted(SelectSeq(items, is_file))]

\* the calls left once every call with nothing to process has returned
RECURSIVE Settle(_)
Settle(frames) ==
    IF frames # <<>> /\ frames[1].dirs = <<>> /\ frames[1].files = <<>>
    THEN Settle(Tail(frames))
    ELSE frames

Init ==
    /\ fs \in Trees
    /\ ignore_hidden \in BOOLEAN
    /\ ignore_patterns \in PatternLists
    /\ include_file_contents \in BOOLEAN
    /\ output_file \in OutputFiles
    /\ output_file # None => ignore_hidden /\ ignore_patterns = None /\ include_file_contents
    /\ pc = "start"
    /\ stack = <<>>
    /\ result = preamble
    /\ file_contents = <<>>
    /\ cursor = 0
    /\ content = <<>>
    /\ numbered_lines = <<>>
    /\ shown = <<>>
    /\ returned = None
    /\ written = None
    /\ console = <<>>
    /\ previous = None

params == <<fs, ignore_hidden, ignore_patterns, include_file_contents, output_file>>
outcome == <<returned, written, console>>
reading == <<cursor, content, numbered_lines>>

\* a faulty variant: the error ends every active call of _build_tree
abandon_callers(frames) == <<>>

\* lines 90-93: the call that could not list its directory returns to its caller
return_to_caller(frames) == frames

\* lines 88-97, 131: the root is listed, in the order iterdir() yields
root_listed ==
    /\ pc = "start"
    /\ ~fs[Root].denied
    /\ \E items \in Orderings(Children(Root)) :
          stack' = Settle(<<Frame(Root, <<>>, items)>>)
    /\ pc' = "tree"
    /\ UNCHANGED <<params, result, file_contents, reading, shown, outcome, previous>>

\* lines 88-93, 131: listing the root raises PermissionError
root_denied ==
    /\ pc = "start"
    /\ fs[Root].denied
    /\ result' = Append(result, denied_line(indent))
    /\ shown' = Append(shown, [item |-> Root, kind |-> "denied"])
    /\ stack' = <<>>
    /\ pc' = "tree"
    /\ UNCHANGED <<params, file_contents, reading, outcome, previous>>

\* lines 100-103: an ignored directory is passed over
dir_skipped ==
    /\ pc = "tree" /\ stack # <<>> /\ stack[1].dirs # <<>>
    /\ should_ignore(Head(stack[1].dirs))
    /\ stack' = Settle([stack EXCEPT ![1].dirs = Tail(@)])
    /\ UNCHANGED <<params, pc, result, file_contents, reading, shown, outcome, previous>>

\* lines 100-109, 88-97: a directory gets its line, is entered and listed
dir_entered ==
    /\ pc = "tree" /\ stack # <<>> /\ stack[1].dirs # <<>>
    /\ LET dir_item == Head(stack[1].dirs)
           lead == stack[1].prefix \o indent
       IN /\ ~should_ignore(dir_item)
          /\ ~fs[dir_item].denied
          /\ result' = Append(result, folder_line(lead, Name(dir_item)))
          /\ shown' = Append(shown, [item |-> dir_item, kind |-> "folder"])
          /\ \E items \in Orderings(Children(dir_item)) :
                stack' = Settle(<<Frame(dir_item, lead, items)>>
                                  \o [stack EXCEPT ![1].dirs = Tail(@)])
    /\ UNCHANGED <<params, pc, file_contents, reading, outcome, previous>>

\* lines 100-109, 88-93: a directory gets its line and is entered, and listing
\* it raises PermissionError
dir_denied ==
    /\ pc = "tree" /\ stack # <<>> /\ stack[1].dirs # <<>>
    /\ LET dir_item == Head(stack[1].dirs)
           lead == stack[1].prefix \o indent
       IN /\ ~should_ignore(dir_item)
          /\ fs[dir_item].denied
          /\ result' = result \o <<folder_line(lead, Name(dir_item)), denied_line(lead \o indent)>>
          /\ shown' = shown \o <<[item |-> dir_item, kind |-> "folder"],
                                 [item |-> dir_item, kind |-> "denied"]>>
          /\ stack' = Settle(return_to_caller([stack EXCEPT ![1].dirs = Tail(@)]))
    /\ UNCHANGED <<params, pc, file_contents, reading, outcome, previous>>

\* lines 112-115: an ignored file, or one of no known language, is passed over
file_skipped ==
    /\ pc = "tree" /\ stack # <<>> /\ stack[1].dirs = <<>> /\ stack[1].files # <<>>
    /\ LET file_item == Head(stack[1].files)
       IN should_ignore(file_item) \/ determine_file_language(Name(file_item)) = None
    /\ stack' = Settle([stack EXCEPT ![1].files = Tail(@)])
    /\ UNCHANGED <<params, pc, result, file_contents, reading, shown, outcome, previous>>

\* lines 112-128: a file gets its line and is recorded for the content section
file_listed ==
    /\ pc = "tree" /\ stack # <<>> /\ stack[1].dirs = <<>> /\ stack[1].files # <<>>
    /\ LET file_item == Head(stack[1].files)
           rel_path == path_str(file_item)
           anchor_id == create_anchor_id(rel_path)
       IN /\ ~should_ignore(file_item)
          /\ determine_file_language(Name(file_item)) # None
          /\ result' = Append(result, file_line(stack[1].prefix \o indent, Name(file_item), anchor_id))
          /\ shown' = Append(shown, [item |-> file_item, kind |-> "file"])
          /\ file_contents' =
                IF include_file_contents
                THEN dict_set(file_contents, file_key(rel_path, Name(file_item)),
                              [anchor_id |-> anchor_id, file_path |-> file_item, rel_path |-> rel_path])
                ELSE file_contents
    /\ stack' = Settle([stack EXCEPT ![1].files = Tail(@)])
    /\ UNCHANGED <<params, pc, reading, outcome, previous>>

\* lines 134-137: the content section is opened when there is something to show
contents_opened ==
    /\ pc = "tree" /\ stack = <<>>
    /\ include_file_contents /\ file_contents # <<>>
    /\ result' = result \o <<separator_line, contents_title_line>>
    /\ pc' = "emit"
    /\ cursor' = 1
    /\ UNCHANGED <<params, stack, file_contents, content, numbered_lines, shown, outcome, previous>>

\* lines 147-151: the three lines every section starts with
section_head(rec) ==
    <<heading_line(rec.anchor_id), path_line(rec.rel_path), description_line(rec.rel_path)>>

\* a faulty variant: the fence is opened before the file is read
fence_then_error(language) == <<fence_line(language), error_line>>

\* lines 173-174: what the section gets when read_text raises
section_on_error(language) == <<error_line>>

\* lines 140-172: the section of a file that is read
section_emitted ==
    /\ pc = "emit" /\ cursor <= Len(file_contents)
    /\ LET rec == file_contents[cursor].value
           language == determine_file_language(Name(rec.file_path))
       IN IF language = None
          THEN /\ pc' = "assertion_failed"
               /\ UNCHANGED <<result, reading>>
          ELSE /\ fs[rec.file_path].readable
               /\ content' = fs[rec.file_path].text
               /\ numbered_lines' = number_lines(split_lines(rstrip(content')))
               /\ result' = result \o section_head(rec)
                              \o <<fence_line(language[1]),
                                   code_line(Join(<<"\n">>, numbered_lines')),
                                   fence_end_line, rule_line>>
               /\ cursor' = cursor + 1
               /\ pc' = pc
    /\ UNCHANGED <<params, stack, file_contents, shown, outcome, previous>>

\* lines 140-174: the section of a file whose reading fails
section_failed ==
    /\ pc = "emit" /\ cursor <= Len(file_contents)
    /\ LET rec == file_contents[cursor].value
           language == determine_file_language(Name(rec.file_path))
       IN /\ language # None
          /\ ~fs[rec.file_path].readable
          /\ result' = result \o section_head(rec) \o section_on_error(language[1])
    /\ cursor' = cursor + 1
    /\ UNCHANGED <<params, pc, stack, file_contents, content, numbered_lines, shown, outcome, previous>>

\* the tree is built and there is no content section (line 134), or the loop
\* over file_contents is over (line 140)
result_complete ==
    \/ pc = "tree" /\ stack = <<>> /\ ~(include_file_contents /\ file_contents # <<>>)
    \/ pc = "emit" /\ cursor > Len(file_contents)

\* lines 177-189: join, print, write when asked to, return
finish ==
    /\ result_complete
    /\ LET markdown_structure == markdown_of(result)
       IN /\ console' = console \o <<markdown_structure>>
                          \o (IF output_file # None THEN <<"Repository structure saved to">> ELSE <<>>)
          /\ written' = IF output_file # None THEN Some(markdown_structure) ELSE written
          /\ returned' = Some(markdown_structure)
    /\ pc' = "done"
    /\ UNCHANGED <<params, stack, result, file_contents, reading, shown, previous>>

\* the function is called a second time, with the same arguments on the same tree
called_again ==
    /\ pc = "done" /\ previous = None
    /\ previous' = returned
    /\ pc' = "start"
    /\ stack' = <<>>
    /\ result' = preamble
    /\ file_contents' = <<>>
    /\ cursor' = 0
    /\ content' = <<>>
    /\ numbered_lines' = <<>>
    /\ shown' = <<>>
    /\ returned' = None
    /\ console' = <<>>
    /\ UNCHANGED <<params, written>>

Next ==
    \/ root_listed
    \/ root_denied
    \/ dir_skipped
    \/ dir_entered
    \/ dir_denied
    \/ file_skipped
    \/ file_listed
    \/ contents_opened
    \/ section_emitted
    \/ section_failed
    \/ finish

\* one call
Spec == Init /\ [][Next]_vars

\* two calls in a row
NextTwice == Next \/ called_again

SpecTwice == Init /\ [][NextTwice]_vars

(***************************************************************************)
(* What the properties speak of                                            *)
(***************************************************************************)
IsPrefix(a, b) == Len(a) <= Len(b) /\ SubSeq(b, 1, Len(a)) = a
Done == pc = "done"

\* The name starts with a dot.
Hidden(n) == n # <<>> /\ n[1] = "."

\* The entry, or a directory above it and below the root, is hidden.
InHiddenSubtree(p) == \E k \in DOMAIN p : Hidden(p[k])

\* The extension of the file, lowercased, is no key of the table.
Unsupported(p) ==
    LET extension == Lower(Suffix(Name(p)))
    IN \A e \in extension_map : e[1] # extension

\* The entries that have a line in the tree section, in the order of the lines.
ShownFiles == SelectSeq(shown, LAMBDA e : e.kind = "file")
ShownFilePaths == [i \in DOMAIN ShownFiles |-> path_str(ShownFiles[i].item)]
ShownItems == {shown[i].item : i \in {j \in DOMAIN shown : shown[j].kind \in {"folder", "file"}}}

\* The relative paths of the content sections, in the order of the sections.
PathLines == SelectSeq(result, LAMBDA l : l.kind = "path")
SectionPaths == [i \in DOMAIN PathLines |-> PathLines[i].text]
RecordedPaths == [i \in DOMAIN file_contents |-> file_contents[i].value.rel_path]

\* depth times the indent
RECURSIVE Indented(_)
Indented(depth) == IF depth = 0 THEN <<>> ELSE indent \o Indented(depth - 1)

\* The tree section is the lines after the preamble, one per element of
\* shown: the line of an entry carries its name at the depth of the entry,
\* and the line of a file links to the anchor of its relative path.
TreeLinesMatch ==
    /\ Len(result) >= Len(preamble) + Len(shown)
    /\ \A i \in DOMAIN shown :
          LET l == result[Len(preamble) + i]
              e == shown[i]
          IN /\ l.kind = e.kind
             /\ e.kind = "denied" => l.lead = Indented(Len(e.item) + 1)
             /\ e.kind \in {"folder", "file"} =>
                   /\ e.item \in DOMAIN fs /\ e.item # Root
                   /\ l.text = Name(e.item)
                   /\ l.lead = Indented(Len(e.item))
                   /\ is_dir(e.item) <=> e.kind = "folder"
             /\ e.kind = "file" => l.ref = create_anchor_id(path_str(e.item))
    /\ \A k \in (Len(preamble) + Len(shown) + 1)..Len(result) :
          result[k].kind \notin {"folder", "file", "denied"}

(***************************************************************************)
(* C1: with ignore_hidden set, no entry below the root whose name starts   *)
(* with a dot, and no entry below such an entry, has a line in the tree    *)
(* section or a section in the content section.                            *)
(***************************************************************************)
C1_HiddenAbsent ==
    ignore_hidden =>
        /\ TreeLinesMatch
        /\ \A i \in DOMAIN shown : ~InHiddenSubtree(shown[i].item)
        /\ LET sections == Range(SectionPaths)
           IN \A p \in DOMAIN fs : InHiddenSubtree(p) => path_str(p) \notin sections
        /\ \A i \in DOMAIN file_contents :
              ~InHiddenSubtree(file_contents[i].value.file_path)

\* A finished run that ignored hidden entries on a tree holding a hidden
\* directory with a readable C file in it, and that listed another file and
\* gave it its section.
C1_Witness ==
    /\ Done /\ ignore_hidden
    /\ <<<<".","g">>, <<"a",".","c">>>> \in DOMAIN fs
    /\ ~fs[<<<<".","g">>>>].denied
    /\ fs[<<<<".","g">>, <<"a",".","c">>>>].readable
    /\ Len(ShownFiles) = 1 /\ Len(SectionPaths) = 1

(***************************************************************************)
(* C2: a file whose lowercased extension is no key of the extension table  *)
(* has no line in the tree section and no section in the content section,  *)
(* whatever the options.                                                   *)
(***************************************************************************)
C2_UnsupportedAbsent ==
    LET listed == ShownItems
        sections == Range(SectionPaths)
        recorded == {file_contents[i].value.file_path : i \in DOMAIN file_contents}
    IN /\ TreeLinesMatch
       /\ \A p \in DOMAIN fs :
             is_file(p) /\ Unsupported(p) =>
                 /\ p \notin listed
                 /\ path_str(p) \notin sections
                 /\ p \notin recorded

\* A finished run over a root holding b.x, which no option ignores, and a
\* file that was listed and shown.
C2_Witness ==
    /\ Done
    /\ <<<<"b",".","x">>>> \in DOMAIN fs
    /\ ~should_ignore(<<<<"b",".","x">>>>)
    /\ ~ignore_hidden /\ ignore_patterns # None
    /\ Len(ShownFiles) = 1 /\ Len(SectionPaths) = 1

(***************************************************************************)
(* C3: among the lines of one directory, the lines of its subdirectories   *)
(* come before the lines of its files, each kind in case-insensitive order *)
(* of the names, and the line of a subdirectory is followed at once by all *)
(* the lines of what is below it.                                          *)
(***************************************************************************)
ChildLines(d) ==
    {i \in DOMAIN shown : shown[i].kind \in {"folder", "file"} /\ Parent(shown[i].item) = d}

SubtreeLines(d) == {k \in DOMAIN shown : IsPrefix(d, shown[k].item)}

C3_TreeOrder ==
    /\ TreeLinesMatch
    /\ \A d \in {Root} \cup {shown[i].item : i \in {j \in DOMAIN shown : shown[j].kind = "folder"}} :
          LET children == ChildLines(d)
          IN \A i, j \in children :
                /\ shown[i].kind = "folder" /\ shown[j].kind = "file" => i < j
                /\ shown[i].kind = shown[j].kind /\ i < j =>
                      StrLeq(Lower(Name(shown[i].item)), Lower(Name(shown[j].item)))
    /\ \A i \in DOMAIN shown :
          shown[i].kind = "folder" =>
              LET below == SubtreeLines(shown[i].item)
              IN below = i..(i + Cardinality(below) - 1)

\* A finished run that showed directory a, the file in it, and then
\* directory B.
C3_Witness ==
    /\ Done
    /\ Len(shown) = 3
    /\ shown[1] = [item |-> <<<<"a">>>>, kind |-> "folder"]
    /\ shown[2] = [item |-> <<<<"a">>, <<"a",".","c">>>>, kind |-> "file"]
    /\ shown[3] = [item |-> <<<<"B">>>>, kind |-> "folder"]

(***************************************************************************)
(* C4: with include_file_contents set, the files recorded are the files    *)
(* listed in the tree, each once and in the order of the tree, and at the  *)
(* end of the run the content sections are those files in that order.      *)
(***************************************************************************)
C4_SectionsAreListedFiles ==
    include_file_contents =>
        /\ TreeLinesMatch
        /\ pc \in {"start", "tree"} => RecordedPaths = ShownFilePaths
        /\ pc = "emit" => SectionPaths = SubSeq(ShownFilePaths, 1, cursor - 1)
        /\ Done => SectionPaths = ShownFilePaths

\* A finished run that listed two files of the same name, one in a
\* directory and one in the root, and gave each its section.
C4_Witness ==
    /\ Done /\ include_file_contents
    /\ ShownFilePaths = << <<"a","/","a",".","c">>, <<"a",".","c">> >>
    /\ SectionPaths = ShownFilePaths

(***************************************************************************)
(* C5: no two files listed in one run have the same anchor: the links of   *)
(* the tree and the headings of the sections are pairwise distinct.        *)
(***************************************************************************)
FileLines == SelectSeq(result, LAMBDA l : l.kind = "file")
HeadingLines == SelectSeq(result, LAMBDA l : l.kind = "heading")

C5_AnchorsDistinct ==
    /\ \A i, j \in DOMAIN FileLines : i # j => FileLines[i].ref # FileLines[j].ref
    /\ \A i, j \in DOMAIN HeadingLines : i # j => HeadingLines[i].text # HeadingLines[j].text

(***************************************************************************)
(* C6: the numbered lines of a file that was read.  The text of the file   *)
(* is taken up to its last character that is not white space; line i of    *)
(* that text is what lies between its newline i-1 and its newline i.       *)
(***************************************************************************)
\* the last thing appended to result is the end of a file's code block
SectionJustEmitted == result[Len(result)].kind = "rule"

\* content without the white space it ends with
StrippedContent ==
    LET k == CHOOSE n \in 0..Len(content) :
                 /\ \A j \in (n + 1)..Len(content) : IsSpace(content[j])
                 /\ n = 0 \/ ~IsSpace(content[n])
    IN SubSeq(content, 1, k)

Newlines(t) == {j \in DOMAIN t : t[j] = "\n"}

\* the position of newline number n of t; 0 is before the text, and the end
\* of the text stands for the newline after its last line
NewlineAt(t, n) ==
    IF n = 0 THEN 0
    ELSE IF n > Cardinality(Newlines(t)) THEN Len(t) + 1
    ELSE CHOOSE j \in Newlines(t) : Cardinality({m \in Newlines(t) : m < j}) = n - 1

LineOf(t, i) == SubSeq(t, NewlineAt(t, i - 1) + 1, NewlineAt(t, i) - 1)

\* the number of lines of a text: none when it is empty
LineCount(t) == IF t = <<>> THEN 0 ELSE Cardinality(Newlines(t)) + 1

NumberedAsLinesOf(t) ==
    \A i \in DOMAIN numbered_lines :
        numbered_lines[i] = Str(i) \o <<":", " ">> \o LineOf(t, i)

BlockIsNumberedLines ==
    result[Len(result) - 2] = code_line(Join(<<"\n">>, numbered_lines))

\* C6 as claimed: a text of n lines yields exactly the n numbered lines
\* "1: ..." to "n: ...".
C6_OneNumberedLinePerLine ==
    SectionJustEmitted =>
        /\ BlockIsNumberedLines
        /\ Len(numbered_lines) = LineCount(StrippedContent)
        /\ NumberedAsLinesOf(StrippedContent)

\* C6 as amended: a text of n >= 1 lines yields exactly the n numbered lines
\* "1: ..." to "n: ..."; a file that is empty or all white space yields the
\* one numbered line "1: ".
C6_NumberedLines ==
    SectionJustEmitted =>
        /\ BlockIsNumberedLines
        /\ StrippedContent # <<>> =>
              /\ Len(numbered_lines) = LineCount(StrippedContent)
              /\ NumberedAsLinesOf(StrippedContent)
        /\ StrippedContent = <<>> => numbered_lines = << <<"1", ":", " ">> >>

\* The section of a file of three lines, the second one empty, that ends
\* with white space and a blank line.
C6_Witness ==
    /\ SectionJustEmitted
    /\ content = BasicText
    /\ numbered_lines = << <<"1", ":", " ", "x">>, <<"2", ":", " ">>, <<"3", ":", " ", "x">> >>

(***************************************************************************)
(* C7: a second run on the unchanged tree with the same options returns    *)
(* the document the first run returned, in whatever order the directory    *)
(* listings come.                                                          *)
(***************************************************************************)
C7_SameDocument == Done /\ previous # None => returned = previous

(***************************************************************************)
(* C8: a file that cannot be read gets a section whose head is followed by *)
(* the error notice and nothing else, no fence is left open, the loop goes *)
(* on to the next recorded file, and at the end every recorded file has    *)
(* its section, in order.                                                  *)
(***************************************************************************)
C8_ReadErrorIsLocal ==
    /\ pc # "assertion_failed"
    /\ \A k \in DOMAIN result :
          /\ result[k].kind = "fence" =>
                k + 2 <= Len(result) /\ result[k + 2].kind = "fence_end"
          /\ result[k].kind = "fence_end" => result[k - 2].kind = "fence"
          /\ result[k].kind = "error" =>
                /\ result[k - 1].kind = "description"
                /\ k < Len(result) => result[k + 1].kind = "heading"
          /\ result[k].kind = "path" =>
                /\ result[k - 1].kind = "heading" /\ result[k + 1].kind = "description"
                /\ \E p \in DOMAIN fs :
                      /\ is_file(p) /\ path_str(p) = result[k].text
                      /\ result[k + 2].kind = (IF fs[p].readable THEN "fence" ELSE "error")
    /\ pc = "emit" =>
          /\ cursor <= Len(file_contents) + 1
          /\ SectionPaths = SubSeq(RecordedPaths, 1, cursor - 1)
    /\ Done /\ include_file_contents => SectionPaths = RecordedPaths

\* A finished run in which the first recorded file could not be read and
\* the second one got its code block.
C8_Witness ==
    /\ Done
    /\ Len(file_contents) = 2
    /\ ~fs[file_contents[1].value.file_path].readable
    /\ fs[file_contents[2].value.file_path].readable
    /\ \E k \in DOMAIN result :
          /\ result[k].kind = "error"
          /\ k + 4 <= Len(result)
          /\ result[k + 4].kind = "fence"

(***************************************************************************)
(* C9: with output_file given the document is written to the file and the  *)
(* call returns None; the document is returned when no file is given.      *)
(***************************************************************************)
C9_ReturnsNoneWhenWritten ==
    Done =>
        /\ output_file # None => written = Some(markdown_of(result)) /\ returned = None
        /\ output_file = None => returned = Some(markdown_of(result))

(***************************************************************************)
(* C10: a directory that cannot be listed gets one marker line, right      *)
(* after its own line, and no line for anything below it; the calls above  *)
(* it go on with their next child, and at the end of the run every entry   *)
(* that is not ignored, not an unsupported file, and not below an ignored  *)
(* or unlistable directory has its line.                                   *)
(***************************************************************************)
\* the directories above p, the root among them
Above(p) == {SubSeq(p, 1, n) : n \in 0..(Len(p) - 1)}

Listable(p) ==
    /\ p # Root
    /\ ~should_ignore(p)
    /\ is_file(p) => ~Unsupported(p)
    /\ \A q \in Above(p) : ~fs[q].denied /\ (q # Root => ~should_ignore(q))

C10_PermissionErrorIsLocal ==
    /\ TreeLinesMatch
    /\ \A i \in DOMAIN shown :
          shown[i].kind = "denied" =>
              /\ fs[shown[i].item].denied
              /\ \A j \in DOMAIN shown :
                    /\ j # i /\ shown[j].kind = "denied" => shown[j].item # shown[i].item
                    /\ IsPrefix(shown[i].item, shown[j].item) => shown[j].item = shown[i].item
              /\ shown[i].item # Root => i > 1 /\ shown[i - 1] = [item |-> shown[i].item, kind |-> "folder"]
    /\ \A i \in DOMAIN shown :
          shown[i].kind = "folder" /\ fs[shown[i].item].denied =>
              i < Len(shown) /\ shown[i + 1] = [item |-> shown[i].item, kind |-> "denied"]
    /\ pc = "tree" /\ stack # <<>> => stack[1].dirs # <<>> \/ stack[1].files # <<>>
    /\ Done => ShownItems = {p \in DOMAIN fs : Listable(p)}

\* A finished run over a root holding directory a, which cannot be listed
\* and holds a file, directory B and a C file: a's line and marker are
\* followed by the lines of B and of the file.
C10_Witness ==
    /\ Done
    /\ Len(shown) >= 3
    /\ shown[1] = [item |-> <<<<"a">>>>, kind |-> "folder"]
    /\ shown[2] = [item |-> <<<<"a">>>>, kind |-> "denied"]
    /\ shown[3].kind \in {"folder", "file"}
    /\ \E p \in DOMAIN fs : IsPrefix(<<<<"a">>>>, p) /\ p # <<<<"a">>>>

====
